---- MODULE Spec2Model ----
(***************************************************************************)
(* Model of the Scope tag repository (internal/tag) over its SQLite store  *)
(* (internal/db).  The three tables are sets of rows.  Every exported      *)
(* function of the tag package is an operator that maps the current state  *)
(* to what the function returns and to the tables it leaves behind, and an *)
(* action that commits those tables.                                       *)
(***************************************************************************)
EXTENDS Integers, Sequences, FiniteSets, TLC

\* ------------------------------------------------------------------ bounds
\* highest tag id the AUTOINCREMENT sequence of table tags may hand out
MaxTagId == 2

\* the directories that exist when the program starts, and the paths and tag
\* names callers pass in, each listed in byte-wise ascending order
DiskPaths == {"/a/x", "/b/x"}
PathOrder == <<"", "/", "/a/x", "/b/x", "/c/x-1">>
NameOrder == <<"", "x", "y">>
Paths == DiskPaths \cup {""}
Names == {NameOrder[i] : i \in 1..Len(NameOrder)}

\* ------------------------------------------------------------- error kinds
ErrNone == "ok"
ErrFolderNotFound == "folder does not exist"
ErrNotInitialized == "database not initialized"
ErrAssociationNotFound == "tag not found on folder"
ErrTagNotFound == "tag not found"
\* the source-not-found message worded as the collision message
ErrSourceNotFound_AsExists == "tag already exists"
ErrSourceNotFound == "source tag not found"
ErrTagExists == "tag already exists"
ErrStore == "store failure"
ErrInit == "init failure"
ErrNoTags == "no tags provided"
ErrListFolders == "failed to list folders for tag"
ErrNoFolders == "no folders found with tags"
ErrTempDir == "failed to create temp directory"
ErrSymlink == "failed to create symlink"
ErrRunShell == "failed to run shell"

VARIABLES
    disk,         \* the directories that exist on disk
    db,           \* the package-level handle: "nil", "open" or "noschema"
    once,         \* TRUE when sync.Once has run the initialisation body
    folders,      \* rows of table folders: [id, path]
    tags,         \* rows of table tags: [id, name]
    folder_tags,  \* rows of table folder_tags: [folder_id, tag_id]
    folderSeq,    \* sqlite_sequence entry of folders (last id handed out)
    tagSeq,       \* sqlite_sequence entry of tags
    spc,          \* where the scope process is in StartMultiTagSession
    tagNames,     \* the argument of StartMultiTagSession
    root,         \* TRUE while the workspace root (tempDir) exists
    links,        \* the symlinks in the workspace: [name, target]
    sfolders,     \* the folders still to be linked, in the slice's order
    shell,        \* the spawned shell: "none", "running" or how it ended
    serr,         \* the error StartMultiTagSession returned
    ipc,          \* where each goroutine is in InitDB / once.Do
    mu,           \* the goroutine holding the mutex of once, or 0
    ierr,         \* each goroutine's local variable err of InitDB
    iret,         \* what each goroutine's last InitDB call returned
    calls,        \* the number of InitDB calls each goroutine has returned from
    bodyRuns,     \* how many times the initialisation body has been entered
    opens,        \* how many handles sql.Open has handed out
    handle,       \* what GetDB returned to each goroutine (Unset before)
    nfolders,     \* len(folders) in runEachParallel
    spawned,      \* how many workers the loop has started
    wpc,          \* where each worker goroutine is
    werr,         \* whether each worker's cmd.Run() returned an error
    wg,           \* the WaitGroup counter
    results,      \* the buffered channel results
    closed,       \* TRUE once close(results) has run
    closer,       \* the goroutine that waits and closes: "none", "waiting", "done"
    cpc,          \* where runEachParallel itself is: "spawn", "collect", "done"
    successCount, \* the collector's counter of results without error
    failCount,    \* the collector's counter of results with an error
    collected     \* the folders whose results the collector has received, in order

svars == <<spc, tagNames, root, links, sfolders, shell, serr>>
ivars == <<ipc, mu, ierr, iret, calls, bodyRuns, opens, handle>>
pvars == <<nfolders, spawned, wpc, werr, wg, results, closed, closer, cpc,
           successCount, failCount, collected>>
vars == <<disk, db, once, folders, tags, folder_tags, folderSeq, tagSeq, svars,
          ivars, pvars>>

\* the database file as it stands
Store ==
    [folders |-> folders, tags |-> tags, folder_tags |-> folder_tags,
     folderSeq |-> folderSeq, tagSeq |-> tagSeq]

\* what a call hands back: the tables it leaves, its error, and the count
\* and the list it returns (0 and <<>> where the function returns neither)
Return(st, err, count, list) ==
    [st |-> st, err |-> err, count |-> count, list |-> list]

\* a call that returns an error and has written nothing
Fails(err) == Return(Store, err, 0, <<>>)

\* ----------------------------------------------------------------- helpers
Rank(order, s) == CHOOSE i \in 1..Len(order) : order[i] = s

RECURSIVE SortBy(_, _)
\* the elements of set S as a sequence in ascending order of their rank
SortBy(order, S) ==
    IF S = {} THEN <<>>
    ELSE LET m == CHOOSE a \in S : \A b \in S : Rank(order, a) <= Rank(order, b)
         IN <<m>> \o SortBy(order, S \ {m})

Range(s) == {s[i] : i \in 1..Len(s)}

\* the existence check left out: every path passes
NotExist_Unchecked(p) == FALSE

\* os.Stat(path) reports that the path does not exist
NotExist(p) == p \notin disk

\* SELECT id FROM folders WHERE path = p; 0 stands for sql.ErrNoRows
FolderIdOf(p) ==
    IF \E f \in folders : f.path = p
    THEN (CHOOSE f \in folders : f.path = p).id
    ELSE 0

\* SELECT id FROM tags WHERE name = n; 0 stands for sql.ErrNoRows
TagIdOf(n) ==
    IF \E t \in tags : t.name = n
    THEN (CHOOSE t \in tags : t.name = n).id
    ELSE 0

\* sql.Open is given the bare file path: no _foreign_keys parameter, so the
\* connection keeps SQLite's default and ON DELETE CASCADE is not enforced
ForeignKeys == FALSE

\* id given to an inserted row of an AUTOINCREMENT table: one more than the
\* largest id the table ever held
NextId(rows, seq) == seq + 1

\* DELETE FROM tags WHERE id IN tids, as it acts on folder_tags
CascadeTags(fts, tids) ==
    IF ForeignKeys THEN {ft \in fts : ft.tag_id \notin tids} ELSE fts

\* DELETE FROM folders WHERE id IN fids, as it acts on folder_tags
CascadeFolders(fts, fids) ==
    IF ForeignKeys THEN {ft \in fts : ft.folder_id \notin fids} ELSE fts

\* the insert dropped: the table is left as it was
InsertOrIgnore_Dropped(fts, fid, tid) == fts

\* INSERT OR IGNORE INTO folder_tags (folder_id, tag_id, ...)
InsertOrIgnore(fts, fid, tid) ==
    fts \cup {[folder_id |-> fid, tag_id |-> tid]}

\* the error of a call on a handle that is nil or has no schema ("" if usable)
HandleErr ==
    CASE db = "nil" -> ErrNotInitialized
      [] db = "noschema" -> ErrStore
      [] OTHER -> ""

\* ------------------------------------------------------------------ queries
\* rows of: folders f JOIN folder_tags ft ON f.id = ft.folder_id
\*          JOIN tags t ON ft.tag_id = t.id   (in the tables st)
Joined(st) ==
    {r \in st.folders \X st.folder_tags \X st.tags :
        r[1].id = r[2].folder_id /\ r[2].tag_id = r[3].id}

RECURSIVE RowsByPath_Descending(_)
\* ORDER BY f.path DESC
RowsByPath_Descending(R) ==
    IF R = {} THEN <<>>
    ELSE LET m == CHOOSE a \in R : \A b \in R :
                      Rank(PathOrder, a[1].path) >= Rank(PathOrder, b[1].path)
         IN <<m>> \o RowsByPath_Descending(R \ {m})

RECURSIVE RowsByPath(_)
\* joined rows ordered by f.path
RowsByPath(R) ==
    IF R = {} THEN <<>>
    ELSE LET m == CHOOSE a \in R : \A b \in R :
                      Rank(PathOrder, a[1].path) <= Rank(PathOrder, b[1].path)
         IN <<m>> \o RowsByPath(R \ {m})

RECURSIVE RowsByName(_)
\* joined rows ordered by t.name
RowsByName(R) ==
    IF R = {} THEN <<>>
    ELSE LET m == CHOOSE a \in R : \A b \in R :
                      Rank(NameOrder, a[3].name) <= Rank(NameOrder, b[3].name)
         IN <<m>> \o RowsByName(R \ {m})

\* SELECT f.path ... WHERE t.name = tagName ORDER BY f.path, run on tables st
ListFoldersByTagIn(st, tagName) ==
    LET rows == RowsByPath({r \in Joined(st) : r[3].name = tagName})
    IN [i \in 1..Len(rows) |-> rows[i][1].path]

ListFoldersByTag(tagName) == ListFoldersByTagIn(Store, tagName)

\* a call of ListFoldersByTag: the slice and the error it returns
ListFoldersByTagCall(tagName) ==
    IF HandleErr # "" THEN Fails(HandleErr)
    ELSE Return(Store, ErrNone, 0, ListFoldersByTag(tagName))

\* SELECT t.name ... WHERE f.path = path ORDER BY t.name, run on tables st
GetTagsForFolderIn(st, path) ==
    LET rows == RowsByName({r \in Joined(st) : r[1].path = path})
    IN [i \in 1..Len(rows) |-> rows[i][3].name]

GetTagsForFolder(path) == GetTagsForFolderIn(Store, path)

\* SELECT t.name, COUNT(ft.folder_id) FROM tags t LEFT JOIN folder_tags ft
\* ON t.id = ft.tag_id GROUP BY t.id, t.name: a map from tag name to count
ListTagsIn(st) ==
    [n \in {t.name : t \in st.tags} |->
        Cardinality({ft \in st.folder_tags :
                        \E t \in st.tags : t.name = n /\ ft.tag_id = t.id})]

ListTags == ListTagsIn(Store)

\* SELECT DISTINCT f.path FROM folders f JOIN folder_tags ft
\* ON f.id = ft.folder_id ORDER BY f.path
ListAllFoldersIn(st) ==
    SortBy(PathOrder,
           {f.path : f \in {g \in st.folders :
                              \E ft \in st.folder_tags : ft.folder_id = g.id}})

ListAllFolders == ListAllFoldersIn(Store)

\* --------------------------------------------------------------- operations
\* the SELECT left out: a folder row is inserted on every call
FolderIdFor_AlwaysInsert(path) == NextId(folders, folderSeq)

\* "Insert or get folder": the id of the row for path, a new id when the
\* SELECT finds no row
FolderIdFor(path) ==
    IF FolderIdOf(path) = 0 THEN NextId(folders, folderSeq) ELSE FolderIdOf(path)

\* "Insert or get tag"
TagIdFor(tagName) ==
    IF TagIdOf(tagName) = 0 THEN NextId(tags, tagSeq) ELSE TagIdOf(tagName)

AddTag(path, tagName) ==
    IF NotExist(path) THEN Fails(ErrFolderNotFound)
    ELSE IF HandleErr # "" THEN Fails(HandleErr)
    ELSE
      LET folderID == FolderIdFor(path)
          newFolder == folderID \notin {f.id : f \in folders}
          tagID == TagIdFor(tagName)
          newTag == tagID \notin {t.id : t \in tags}
      IN Return([folders |-> IF newFolder
                             THEN folders \cup {[id |-> folderID, path |-> path]}
                             ELSE folders,
                 folderSeq |-> IF newFolder THEN folderID ELSE folderSeq,
                 tags |-> IF newTag
                          THEN tags \cup {[id |-> tagID, name |-> tagName]}
                          ELSE tags,
                 tagSeq |-> IF newTag THEN tagID ELSE tagSeq,
                 folder_tags |-> InsertOrIgnore(folder_tags, folderID, tagID)],
                ErrNone, 0, <<>>)

\* the WHERE clause without its tag_id condition: every tag of the folder
RemoveTagRows_AnyTag(path, tagName) ==
    {ft \in folder_tags :
        FolderIdOf(path) # 0 /\ ft.folder_id = FolderIdOf(path)}

\* DELETE FROM folder_tags WHERE folder_id = (SELECT id FROM folders WHERE
\* path = ?) AND tag_id = (SELECT id FROM tags WHERE name = ?)
RemoveTagRows(path, tagName) ==
    {ft \in folder_tags :
        /\ FolderIdOf(path) # 0 /\ ft.folder_id = FolderIdOf(path)
        /\ TagIdOf(tagName) # 0 /\ ft.tag_id = TagIdOf(tagName)}

RemoveTag(path, tagName) ==
    IF HandleErr # "" THEN Fails(HandleErr)
    ELSE IF RemoveTagRows(path, tagName) = {}
    THEN Fails(ErrAssociationNotFound)
    ELSE Return([Store EXCEPT !.folder_tags = @ \ RemoveTagRows(path, tagName)],
                ErrNone, 0, <<>>)

\* the WHERE clause left out: every tag row
DeleteTagRows_All(tagName) == IF TagIdOf(tagName) = 0 THEN {} ELSE tags

\* the rows of: DELETE FROM tags WHERE name = tagName
DeleteTagRows(tagName) == {t \in tags : t.name = tagName}

DeleteTag(tagName) ==
    IF HandleErr # "" THEN Fails(HandleErr)
    ELSE IF DeleteTagRows(tagName) = {}
    THEN Fails(ErrTagNotFound)
    ELSE Return([Store EXCEPT
                    !.tags = @ \ DeleteTagRows(tagName),
                    !.folder_tags =
                        CascadeTags(@, {t.id : t \in DeleteTagRows(tagName)})],
                ErrNone, 0, <<>>)

\* the tag re-inserted under the new name instead of updated in place
UpdateTagName_Reinsert(oldID, newName) ==
    {t \in tags : t.id # oldID} \cup {[id |-> tagSeq + 1, name |-> newName]}

\* UPDATE tags SET name = newName WHERE id = oldID
UpdateTagName(oldID, newName) ==
    {IF t.id = oldID THEN [t EXCEPT !.name = newName] ELSE t : t \in tags}

\* the check for the new name left out
RenameChecks_NoCollision(oldName, newName) ==
    IF HandleErr # "" THEN HandleErr
    ELSE IF TagIdOf(oldName) = 0 THEN ErrTagNotFound
    ELSE ErrNone

\* the checks RenameTag makes before it updates: the error it returns, or
\* ErrNone when the update goes ahead
RenameChecks(oldName, newName) ==
    IF HandleErr # "" THEN HandleErr
    ELSE IF TagIdOf(oldName) = 0 THEN ErrTagNotFound
    ELSE IF TagIdOf(newName) # 0 THEN ErrTagExists
    ELSE ErrNone

RenameTag(oldName, newName) ==
    IF RenameChecks(oldName, newName) # ErrNone
    THEN Fails(RenameChecks(oldName, newName))
    ELSE Return([Store EXCEPT !.tags = UpdateTagName(TagIdOf(oldName), newName)],
                ErrNone, 0, <<>>)

RECURSIVE MergeLoop_CountsNew(_, _, _, _)
\* the loop counting only the inserts that added a row
MergeLoop_CountsNew(fts, paths, dstID, movedCount) ==
    IF paths = <<>> THEN [fts |-> fts, movedCount |-> movedCount]
    ELSE IF FolderIdOf(Head(paths)) = 0
    THEN MergeLoop_CountsNew(fts, Tail(paths), dstID, movedCount)
    ELSE LET inserted == InsertOrIgnore(fts, FolderIdOf(Head(paths)), dstID)
         IN MergeLoop_CountsNew(inserted, Tail(paths), dstID,
                                IF inserted = fts THEN movedCount
                                ELSE movedCount + 1)

RECURSIVE MergeLoop(_, _, _, _)
\* the loop over the source tag's folders: each folder's id is looked up and
\* (folder, dst) is inserted with OR IGNORE; movedCount counts the inserts
\* that returned no error
MergeLoop(fts, paths, dstID, movedCount) ==
    IF paths = <<>> THEN [fts |-> fts, movedCount |-> movedCount]
    ELSE IF FolderIdOf(Head(paths)) = 0
    THEN MergeLoop(fts, Tail(paths), dstID, movedCount)
    ELSE MergeLoop(InsertOrIgnore(fts, FolderIdOf(Head(paths)), dstID),
                   Tail(paths), dstID, movedCount + 1)

MergeTag(srcName, dstName) ==
    IF HandleErr # "" THEN Fails(HandleErr)
    ELSE IF TagIdOf(srcName) = 0
    THEN Fails(ErrSourceNotFound)
    ELSE
      LET srcID == TagIdOf(srcName)
          newTag == TagIdOf(dstName) = 0
          dstID == IF newTag THEN NextId(tags, tagSeq) ELSE TagIdOf(dstName)
          withDst == IF newTag
                     THEN tags \cup {[id |-> dstID, name |-> dstName]}
                     ELSE tags
          moved == MergeLoop(folder_tags, ListFoldersByTag(srcName), dstID, 0)
      IN Return([Store EXCEPT
                    !.tags = {t \in withDst : t.id # srcID},
                    !.tagSeq = IF newTag THEN dstID ELSE @,
                    !.folder_tags = CascadeTags(moved.fts, {srcID})],
                ErrNone, moved.movedCount, <<>>)

\* INSERT INTO folder_tags SELECT folder_id, newID, ? FROM folder_tags
\* WHERE tag_id = srcID
CopiedRows(srcID, newID) ==
    {[folder_id |-> ft.folder_id, tag_id |-> newID] :
        ft \in {g \in folder_tags : g.tag_id = srcID}}

CloneTag(srcName, newName) ==
    IF HandleErr # "" THEN Fails(HandleErr)
    ELSE IF TagIdOf(srcName) = 0
    THEN Fails(ErrSourceNotFound)
    ELSE IF TagIdOf(newName) # 0
    THEN Fails(ErrTagExists)
    ELSE
      LET newID == NextId(tags, tagSeq)
          copied == CopiedRows(TagIdOf(srcName), newID)
      IN Return([Store EXCEPT
                    !.tags = @ \cup {[id |-> newID, name |-> newName]},
                    !.tagSeq = newID,
                    !.folder_tags = @ \cup copied],
                ErrNone, Cardinality(copied), <<>>)

RECURSIVE RowsById(_)
\* SELECT id, path FROM folders, in rowid order
RowsById(R) ==
    IF R = {} THEN <<>>
    ELSE LET m == CHOOSE a \in R : \A b \in R : a.id <= b.id
         IN <<m>> \o RowsById(R \ {m})

\* the scanned folder rows whose path os.Stat reports missing
ToRemove == SelectSeq(RowsById(folders), LAMBDA f : NotExist(f.path))

\* the dry-run branch left out: the rows are deleted whatever dryRun is
Prune_DryRunDeletes(dryRun) ==
    IF HandleErr # "" THEN Fails(HandleErr)
    ELSE
      LET toRemove == ToRemove
          RemovedFolders == [i \in 1..Len(toRemove) |-> toRemove[i].path]
          ids == {toRemove[i].id : i \in 1..Len(toRemove)}
      IN Return([Store EXCEPT
                    !.folders = {f \in @ : f.id \notin ids},
                    !.folder_tags = CascadeFolders(@, ids)],
                ErrNone, Len(toRemove), RemovedFolders)

Prune(dryRun) ==
    IF HandleErr # "" THEN Fails(HandleErr)
    ELSE
      LET toRemove == ToRemove
          RemovedFolders == [i \in 1..Len(toRemove) |-> toRemove[i].path]
          ids == {toRemove[i].id : i \in 1..Len(toRemove)}
      IN IF dryRun
         THEN Return(Store, ErrNone, Len(toRemove), RemovedFolders)
         ELSE Return([Store EXCEPT
                         !.folders = {f \in @ : f.id \notin ids},
                         !.folder_tags = CascadeFolders(@, ids)],
                     ErrNone, Len(toRemove), RemovedFolders)

\* ------------------------------------------------------------------ actions
\* no session has been started
\* the goroutines that call InitDB, and how often each does
MaxGoroutines == 3
MaxCalls == 2
Goroutines == 1..MaxGoroutines
Unset == -1

\* no goroutine has called InitDB or GetDB
InitIdle ==
    /\ ipc = [g \in Goroutines |-> "idle"]
    /\ mu = 0
    /\ ierr = [g \in Goroutines |-> ErrNone]
    /\ iret = [g \in Goroutines |-> ErrNone]
    /\ calls = [g \in Goroutines |-> 0]
    /\ bodyRuns = 0
    /\ opens = 0
    /\ handle = [g \in Goroutines |-> Unset]

\* the largest number of folders handed to runEachParallel
MaxFolders == 3

\* runEachParallel called with n folders, before its loop
ParIdle(n) ==
    /\ nfolders = n
    /\ spawned = 0
    /\ wpc = [w \in 1..n |-> "none"]
    /\ werr = [w \in 1..n |-> FALSE]
    /\ wg = 0
    /\ results = <<>>
    /\ closed = FALSE
    /\ closer = "none"
    /\ cpc = "spawn"
    /\ successCount = 0
    /\ failCount = 0
    /\ collected = <<>>

SessionIdle ==
    /\ spc = "idle"
    /\ tagNames = <<>>
    /\ root = FALSE
    /\ links = {}
    /\ sfolders = <<>>
    /\ shell = "none"
    /\ serr = ErrNone

Init ==
    /\ disk = DiskPaths
    /\ db = "nil"
    /\ once = FALSE
    /\ folders = {}
    /\ tags = {}
    /\ folder_tags = {}
    /\ folderSeq = 0
    /\ tagSeq = 0
    /\ SessionIdle
    /\ InitIdle
    /\ ParIdle(0)

\* InitDB: the body runs under once.Do; a later call returns the nil error
\* of its own fresh err variable
InitDB ==
    /\ UNCHANGED <<disk, folders, tags, folder_tags, folderSeq, tagSeq, svars, ivars, pvars>>
    /\ IF once
       THEN UNCHANGED <<db, once>>
       ELSE /\ once' = TRUE
            /\ \E outcome \in {"ok", "home", "mkdir", "open", "schema"} :
                 db' = CASE outcome = "ok" -> "open"
                         [] outcome = "schema" -> "noschema"
                         [] OTHER -> "nil"

\* the user removes a directory from disk
Rmdir(p) ==
    /\ p \in disk
    /\ disk' = disk \ {p}
    /\ UNCHANGED <<db, once, folders, tags, folder_tags, folderSeq, tagSeq, svars, ivars, pvars>>

\* a repository function is called: what it returns is out, the tables it
\* leaves are committed
Call(out) ==
    /\ out.st.tagSeq <= MaxTagId
    /\ folders' = out.st.folders
    /\ tags' = out.st.tags
    /\ folder_tags' = out.st.folder_tags
    /\ folderSeq' = out.st.folderSeq
    /\ tagSeq' = out.st.tagSeq
    /\ UNCHANGED <<disk, db, once, svars, ivars, pvars>>

CallAddTag == \E p \in Paths, t \in Names : Call(AddTag(p, t))
CallRemoveTag == \E p \in Paths, t \in Names : Call(RemoveTag(p, t))
CallDeleteTag == \E t \in Names : Call(DeleteTag(t))
CallRenameTag == \E old \in Names, new \in Names : Call(RenameTag(old, new))
CallMergeTag == \E src \in Names, dst \in Names : Call(MergeTag(src, dst))
CallCloneTag == \E src \in Names, new \in Names : Call(CloneTag(src, new))
CallPrune == \E dryRun \in BOOLEAN : Call(Prune(dryRun))

Next ==
    \/ InitDB
    \/ \E p \in DiskPaths : Rmdir(p)
    \/ CallAddTag
    \/ CallRemoveTag
    \/ CallDeleteTag
    \/ CallRenameTag
    \/ CallMergeTag
    \/ CallCloneTag
    \/ CallPrune

Spec == Init /\ [][Next]_vars

\* ------------------------------------------------------------------- claims
\* the (path, name) pairs that are associated in tables st
Associated(st) == {<<r[1].path, r[3].name>> : r \in Joined(st)}

\* C1: every (folder path, tag name) pair has at most one association in
\* every reachable state, and AddTag(p, t) on an existing path succeeds and
\* leaves one folder row, one tag row and one association for the pair; when
\* the pair is already associated the call leaves the store exactly as it was.
C1_AtMostOneAssociation ==
    /\ \A p \in Paths, t \in Names :
         Cardinality({r \in Joined(Store) :
                         r[1].path = p /\ r[3].name = t}) <= 1
    /\ \A p \in disk, t \in Names :
         db = "open" =>
           LET o == AddTag(p, t)
           IN /\ o.err = ErrNone
              /\ Cardinality({f \in o.st.folders : f.path = p}) = 1
              /\ Cardinality({g \in o.st.tags : g.name = t}) = 1
              /\ Cardinality({r \in Joined(o.st) :
                                 r[1].path = p /\ r[3].name = t}) = 1
              /\ <<p, t>> \in Associated(Store) => o.st = Store

\* a pair is associated, its directory is still there, and AddTag is called
\* on it again
C1_Witness ==
    \E p \in disk, t \in Names :
        /\ <<p, t>> \in Associated(Store)
        /\ Cardinality(folder_tags) >= 2
        /\ AddTag(p, t).err = ErrNone
        /\ AddTag(p, t).st = Store

\* C2: for every path p on disk and every tag name t, right after a
\* successful AddTag(p, t), t is in GetTagsForFolder(p) and p is in
\* ListFoldersByTag(t), whether or not p and t were stored before.
C2_AddTagRoundTrip ==
    \A p \in Paths, t \in Names :
        LET o == AddTag(p, t)
        IN o.err = ErrNone =>
             /\ t \in Range(GetTagsForFolderIn(o.st, p))
             /\ p \in Range(ListFoldersByTagIn(o.st, t))

\* AddTag succeeds with a folder that is stored and a tag that is not
C2_Witness ==
    \E p \in disk, t \in Names :
        /\ FolderIdOf(p) # 0
        /\ TagIdOf(t) = 0
        /\ tags # {}
        /\ AddTag(p, t).err = ErrNone
        /\ AddTag(p, t).st.tags # tags

C4_NoOrphanedAssociation ==
    \A ft \in folder_tags :
        /\ \E f \in folders : f.id = ft.folder_id
        /\ \E t \in tags : t.id = ft.tag_id

\* C5: no stored tag row has an empty name and no stored folder row has an
\* empty path, in every reachable state.
C5_NoEmptyNames ==
    /\ \A t \in tags : t.name # ""
    /\ \A f \in folders : f.path # ""

\* C6: RemoveTag(path, tag) succeeds exactly when the pair is associated and
\* then removes that association only: the folder's other tags, the tag's
\* other folders and all folder and tag rows stay.  Otherwise it fails with
\* association-not-found and leaves the store unchanged.
C6_RemoveTag ==
    \A p \in Paths, t \in Names :
        db = "open" =>
          LET o == RemoveTag(p, t)
          IN IF <<p, t>> \in Associated(Store)
             THEN /\ o.err = ErrNone
                  /\ Associated(o.st) = Associated(Store) \ {<<p, t>>}
                  /\ o.st.folders = folders
                  /\ o.st.tags = tags
                  /\ \A q \in Paths :
                       Range(GetTagsForFolderIn(o.st, q)) =
                         Range(GetTagsForFolder(q)) \ (IF q = p THEN {t} ELSE {})
                  /\ \A u \in Names :
                       Range(ListFoldersByTagIn(o.st, u)) =
                         Range(ListFoldersByTag(u)) \ (IF u = t THEN {p} ELSE {})
             ELSE /\ o.err = ErrAssociationNotFound
                  /\ o.st = Store

\* RemoveTag is called on a pair whose folder has another tag and whose tag
\* has another folder
C6_Witness ==
    \E p \in Paths, t \in Names :
        /\ RemoveTag(p, t).err = ErrNone
        /\ Len(GetTagsForFolder(p)) = 2
        /\ Len(ListFoldersByTag(t)) = 2

\* C7: after a successful DeleteTag(t), t is absent from ListTags() and from
\* GetTagsForFolder(p) of every folder, every other tag of every folder is
\* unchanged and the folder rows still exist; DeleteTag of a name that is
\* not a tag fails with tag-not-found and changes nothing.
C7_DeleteTag ==
    \A t \in Names :
        db = "open" =>
          LET o == DeleteTag(t)
          IN IF TagIdOf(t) # 0
             THEN /\ o.err = ErrNone
                  /\ t \notin DOMAIN ListTagsIn(o.st)
                  /\ \A p \in Paths :
                       /\ t \notin Range(GetTagsForFolderIn(o.st, p))
                       /\ Range(GetTagsForFolderIn(o.st, p)) =
                            Range(GetTagsForFolder(p)) \ {t}
                  /\ o.st.folders = folders
             ELSE /\ o.err = ErrTagNotFound
                  /\ o.st = Store

\* DeleteTag is called on a tag of two folders, one of which has another tag
C7_Witness ==
    \E t \in Names :
        /\ DeleteTag(t).err = ErrNone
        /\ Len(ListFoldersByTag(t)) = 2
        /\ \E p \in Paths : Len(GetTagsForFolder(p)) = 2

\* what merge conservation says of a MergeTag(src, dst) that succeeded
MergeConserves(src, dst) ==
    LET o == MergeTag(src, dst)
    IN /\ o.err = ErrNone
       /\ Range(ListFoldersByTagIn(o.st, dst)) =
            Range(ListFoldersByTag(src)) \cup Range(ListFoldersByTag(dst))
       /\ dst \in DOMAIN ListTagsIn(o.st)
       /\ src \notin DOMAIN ListTagsIn(o.st)

\* C8: for every pair of tag names src, dst with src existing, MergeTag(src,
\* dst) succeeds, leaves dst with the union of the folder sets src and dst
\* had, leaves dst existing and src absent from ListTags().
C8_MergeConservation ==
    \A src \in Names, dst \in Names :
        db = "open" /\ TagIdOf(src) # 0 => MergeConserves(src, dst)

\* merge conservation for the pairs with src different from dst
C8_MergeDistinct ==
    \A src \in Names, dst \in Names :
        db = "open" /\ TagIdOf(src) # 0 /\ src # dst => MergeConserves(src, dst)

C10_RenameKeepsFolders ==
    \A old \in Names, new \in Names :
        LET o == RenameTag(old, new)
        IN o.err = ErrNone =>
             /\ ListFoldersByTagIn(o.st, new) = ListFoldersByTag(old)
             /\ old \notin DOMAIN ListTagsIn(o.st)
             /\ new \in DOMAIN ListTagsIn(o.st)
             /\ \A u \in Names \ {old, new} :
                  ListFoldersByTagIn(o.st, u) = ListFoldersByTag(u)
             /\ o.st.folders = folders

\* RenameTag succeeds on a tag of two folders while another tag has a folder
C10_Witness ==
    \E old \in Names, new \in Names :
        /\ RenameTag(old, new).err = ErrNone
        /\ Len(ListFoldersByTag(old)) = 2
        /\ \E u \in Names \ {old, new} : ListFoldersByTag(u) # <<>>

\* C11: after a successful CloneTag(src, new), the folder set of new equals
\* the folder set of src, the folder sets of src and of every other tag are
\* unchanged, and the returned count is the number of folders associated
\* with src.
C11_CloneTag ==
    \A src \in Names, new \in Names :
        LET o == CloneTag(src, new)
        IN o.err = ErrNone =>
             /\ ListFoldersByTagIn(o.st, new) = ListFoldersByTag(src)
             /\ \A u \in Names \ {new} :
                  ListFoldersByTagIn(o.st, u) = ListFoldersByTag(u)
             /\ o.count = Len(ListFoldersByTag(src))

\* the folder sets after a successful CloneTag, without the returned count
C11_CloneFolderSets ==
    \A src \in Names, new \in Names :
        LET o == CloneTag(src, new)
        IN o.err = ErrNone =>
             /\ ListFoldersByTagIn(o.st, new) = ListFoldersByTag(src)
             /\ \A u \in Names \ {new} :
                  ListFoldersByTagIn(o.st, u) = ListFoldersByTag(u)

\* C12: MergeTag and CloneTag called with a source name that is not a tag
\* fail with source-not-found, an error different from the tag-already-exists
\* error CloneTag returns when the source exists and the new name is taken;
\* in each of these failures the store is unchanged, so a failed MergeTag
\* has not created the destination tag.
C12_SourceNotFound ==
    /\ ErrSourceNotFound # ErrTagExists
    /\ \A src \in Names, dst \in Names :
         db = "open" =>
           /\ TagIdOf(src) = 0 =>
                /\ MergeTag(src, dst).err = ErrSourceNotFound
                /\ MergeTag(src, dst).st = Store
                /\ CloneTag(src, dst).err = ErrSourceNotFound
                /\ CloneTag(src, dst).st = Store
           /\ TagIdOf(src) # 0 /\ TagIdOf(dst) # 0 =>
                /\ CloneTag(src, dst).err = ErrTagExists
                /\ CloneTag(src, dst).st = Store

\* MergeTag and CloneTag are called with a missing source and a name that is
\* not stored, and CloneTag with two stored tags
C12_Witness ==
    \E a \in Names, b \in Names, c \in Names :
        /\ TagIdOf(a) = 0 /\ TagIdOf(b) = 0 /\ TagIdOf(c) # 0
        /\ folder_tags # {}
        /\ MergeTag(a, b).err = ErrSourceNotFound
        /\ MergeTag(a, b).st.tags = tags
        /\ CloneTag(a, c).err = ErrSourceNotFound
        /\ CloneTag(c, c).err = ErrTagExists

\* C13: the failure of RemoveTag on a tracked folder that does not carry
\* the named tag differs from its failure on a folder that was never tracked.
C13_RemoveTagDistinguishes ==
    \A p \in Paths, q \in Paths, t \in Names :
        /\ db = "open"
        /\ FolderIdOf(p) # 0 /\ <<p, t>> \notin Associated(Store)
        /\ FolderIdOf(q) = 0
        => RemoveTag(p, t).err # RemoveTag(q, t).err

\* no call other than Prune(false) removes a folder row, and Prune(false)
\* removes only rows whose path is not on disk
FolderRowsPersist ==
    /\ \A p \in Paths, t \in Names :
         /\ folders \subseteq AddTag(p, t).st.folders
         /\ folders \subseteq RemoveTag(p, t).st.folders
    /\ \A t \in Names : folders \subseteq DeleteTag(t).st.folders
    /\ \A a \in Names, b \in Names :
         /\ folders \subseteq RenameTag(a, b).st.folders
         /\ folders \subseteq MergeTag(a, b).st.folders
         /\ folders \subseteq CloneTag(a, b).st.folders
    /\ folders \subseteq Prune(TRUE).st.folders
    /\ \A f \in folders \ Prune(FALSE).st.folders : f.path \notin disk

\* in tables st, every folder that has lost its last tag since the current
\* state still has its row and is absent from ListAllFolders
ZeroTagRowsHidden(st) ==
    \A p \in Paths :
        GetTagsForFolder(p) # <<>> /\ GetTagsForFolderIn(st, p) = <<>> =>
          /\ \E f \in st.folders : f.path = p
          /\ p \notin Range(ListAllFoldersIn(st))

\* C14: no operation other than Prune(false) removes a folder row; when
\* RemoveTag, DeleteTag or MergeTag removes a folder's last association the
\* folder row stays as a zero-tag row, absent from ListAllFolders, and
\* Prune(false) removes a row only if its path is no longer on disk.
C14_FolderRowsOutliveTags ==
    /\ FolderRowsPersist
    /\ \A p \in Paths, t \in Names : ZeroTagRowsHidden(RemoveTag(p, t).st)
    /\ \A t \in Names : ZeroTagRowsHidden(DeleteTag(t).st)
    /\ \A a \in Names, b \in Names : ZeroTagRowsHidden(MergeTag(a, b).st)

\* the part of C14 about folder rows and about RemoveTag
C14_RowsPersist ==
    /\ FolderRowsPersist
    /\ \A p \in Paths, t \in Names :
         <<p, t>> \in Associated(Store) /\ Len(GetTagsForFolder(p)) = 1 =>
           /\ \E f \in RemoveTag(p, t).st.folders : f.path = p
           /\ GetTagsForFolderIn(RemoveTag(p, t).st, p) = <<>>

\* C15: Prune(true) returns the removal list and the count Prune(false)
\* would return in the same store and disk state, and leaves every folder,
\* tag and association row as it was.
C15_PruneDryRun ==
    db = "open" =>
      /\ Prune(TRUE).err = ErrNone
      /\ Prune(TRUE).list = Prune(FALSE).list
      /\ Prune(TRUE).count = Prune(FALSE).count
      /\ Prune(TRUE).st = Store

\* Prune(true) is called while one tagged folder is gone from disk and
\* another is still there
C15_Witness ==
    /\ Cardinality(folders) = 2
    /\ folder_tags # {}
    /\ Prune(TRUE).err = ErrNone
    /\ Prune(TRUE).count = 1
    /\ Prune(FALSE).st # Store

\* the folder rows whose path is not on disk
GoneRows == {f \in folders : f.path \notin disk}

\* C16: Prune(false) deletes exactly the folder rows whose path is no longer
\* on disk, together with all of their associations, returns those paths
\* and their number; the other folder rows and all tag rows are untouched,
\* and no removed path is in ListAllFolders() or in any ListFoldersByTag(t).
C16_Prune ==
    db = "open" =>
      LET o == Prune(FALSE)
      IN /\ o.err = ErrNone
         /\ o.st.folders = folders \ GoneRows
         /\ \A ft \in o.st.folder_tags :
              ft.folder_id \notin {f.id : f \in GoneRows}
         /\ Range(o.list) = {f.path : f \in GoneRows}
         /\ o.count = Cardinality(GoneRows)
         /\ Len(o.list) = o.count
         /\ o.st.tags = tags
         /\ \A f \in GoneRows :
              /\ f.path \notin Range(ListAllFoldersIn(o.st))
              /\ \A t \in Names : f.path \notin Range(ListFoldersByTagIn(o.st, t))

\* C16 without the deletion of the association rows
C16_PruneFolderRows ==
    db = "open" =>
      LET o == Prune(FALSE)
      IN /\ o.err = ErrNone
         /\ o.st.folders = folders \ GoneRows
         /\ Range(o.list) = {f.path : f \in GoneRows}
         /\ o.count = Cardinality(GoneRows)
         /\ Len(o.list) = o.count
         /\ o.st.tags = tags
         /\ \A f \in GoneRows :
              /\ f.path \notin Range(ListAllFoldersIn(o.st))
              /\ \A t \in Names : f.path \notin Range(ListFoldersByTagIn(o.st, t))

\* C17: in every reachable state ListTags() contains every existing tag,
\* tags without folders included, and maps each tag to the number of folders
\* ListFoldersByTag returns for it.
C17_ListTagsCounts ==
    /\ DOMAIN ListTags = {t.name : t \in tags}
    /\ \A n \in DOMAIN ListTags : ListTags[n] = Len(ListFoldersByTag(n))

\* the names ListTags() returns are the names of the tag rows
C17_ListTagsNames == DOMAIN ListTags = {t.name : t \in tags}

\* C18: ListFoldersByTag(t) returns exactly the paths associated with t,
\* each once, in ascending order of path, and returns an empty result and no
\* error when t is not a tag or has no associations.
C18_ListFoldersByTag ==
    \A t \in Names :
        db = "open" =>
          LET o == ListFoldersByTagCall(t)
          IN /\ o.err = ErrNone
             /\ Range(o.list) =
                  {f.path : f \in {g \in folders :
                      \E r \in tags :
                          /\ r.name = t
                          /\ [folder_id |-> g.id, tag_id |-> r.id] \in folder_tags}}
             /\ \A i \in 1..Len(o.list), j \in 1..Len(o.list) :
                  i < j => Rank(PathOrder, o.list[i]) < Rank(PathOrder, o.list[j])
             /\ TagIdOf(t) = 0 => o.list = <<>>
             /\ (\A ft \in folder_tags : ft.tag_id # TagIdOf(t)) => o.list = <<>>

\* a tag has two folders, the one with the greater path tagged first, while
\* another tag has no association and a third name is not a tag
C18_Witness ==
    \E t \in Names, u \in Names, v \in Names :
        /\ Len(ListFoldersByTagCall(t).list) = 2
        /\ FolderIdOf(ListFoldersByTag(t)[1]) > FolderIdOf(ListFoldersByTag(t)[2])
        /\ TagIdOf(u) # 0 /\ \A ft \in folder_tags : ft.tag_id # TagIdOf(u)
        /\ TagIdOf(v) = 0
        /\ ListFoldersByTagCall(u).list = <<>>
        /\ ListFoldersByTagCall(v).err = ErrNone

\* ------------------------------------------------------------------ session
storeVars == <<disk, db, once, folders, tags, folder_tags, folderSeq, tagSeq>>
tableVars == <<db, once, folders, tags, folder_tags, folderSeq, tagSeq>>

\* the argument slices of StartMultiTagSession (StartSession passes one name)
MaxTagArgs == 2
TagArgs == UNION {[1..n -> Names] : n \in 0..MaxTagArgs}

\* the directories of the machine a session runs on
SessionDirs == {"/", "/a/x", "/b/x", "/c/x-1"}

\* folderSet: the union of ListFoldersByTag over the requested names
FolderSet(names) ==
    UNION {Range(ListFoldersByTag(names[i])) : i \in 1..Len(names)}

\* the slice sorted by path instead of built by ranging over the map
FolderSlices_Sorted(S) == {SortBy(PathOrder, S)}

\* the slice built by ranging over the map folderSet: any order
FolderSlices(S) == {q \in [1..Cardinality(S) -> S] : Range(q) = S}

\* filepath.Base(folder)
Base(folder) ==
    CASE folder = "/" -> "/"
      [] folder = "/a/x" -> "x"
      [] folder = "/b/x" -> "x"
      [] folder = "/c/x-1" -> "x-1"
      [] OTHER -> "."

\* tempDir as a path: the entry of os.TempDir() named by MkdirTemp, written
\* as the empty suffix to that name
RootPath == [parent |-> "tmp", name |-> ""]

\* filepath.Join(tempDir, linkName): an entry of tempDir, but tempDir itself
\* when linkName is the separator, which Join cleans away
JoinRoot(linkName) ==
    IF linkName = "/" THEN RootPath ELSE [parent |-> "root", name |-> linkName]

\* fmt.Sprintf("%s-%d", originalLinkPath, counter); counter 0 stands for
\* originalLinkPath itself
Candidate(originalLinkPath, counter) ==
    IF counter = 0 THEN originalLinkPath
    ELSE [originalLinkPath EXCEPT !.name = @ \o "-" \o ToString(counter)]

\* os.Lstat(path) finds an entry, in a workspace that holds the links ls
LstatFinds(path, ls) ==
    \/ path = RootPath
    \/ \E l \in ls : l.path = path

\* the loop left out: the first candidate is taken as it is
FreePath_NoLoop(originalLinkPath, counter, ls) ==
    Candidate(originalLinkPath, counter)

RECURSIVE FreePath(_, _, _)
\* the loop on os.Lstat: the first candidate that does not exist
FreePath(originalLinkPath, counter, ls) ==
    IF LstatFinds(Candidate(originalLinkPath, counter), ls)
    THEN FreePath(originalLinkPath, counter + 1, ls)
    ELSE Candidate(originalLinkPath, counter)

\* the link created for folder in a workspace that holds the links ls
LinkFor(folder, ls) ==
    [path |-> FreePath(JoinRoot(Base(folder)), 0, ls), target |-> folder]

\* os.RemoveAll following the links into their targets
DiskAfterRemoveAll_FollowsLinks == disk \ {l.target : l \in links}

\* the directories left by os.RemoveAll(tempDir): a symlink is unlinked, its
\* target is not visited
DiskAfterRemoveAll == disk

\* the links left by os.RemoveAll(tempDir): those that are not under tempDir
LinksAfterRemoveAll == {l \in links : l.path.parent # "root"}

\* the shell's exit status propagated as an error
ShellResult_Propagates(outcome) ==
    IF outcome = "exit0" THEN ErrNone ELSE ErrRunShell

\* what StartMultiTagSession returns for the error of cmd.Run(): nil for no
\* error and for an *exec.ExitError carrying a wait status, else the error
ShellResult(outcome) ==
    IF outcome \in {"exit0", "exit1"} THEN ErrNone ELSE ErrRunShell

\* StartMultiTagSession returns err before the workspace is created
EarlyReturn(err) ==
    /\ spc' = "returned"
    /\ serr' = err
    /\ UNCHANGED <<disk, root, links, sfolders>>

\* StartMultiTagSession returns err and the deferred os.RemoveAll(tempDir)
\* runs
SessionReturns(err) ==
    /\ spc' = "returned"
    /\ serr' = err
    /\ root' = FALSE
    /\ links' = LinksAfterRemoveAll
    /\ disk' = DiskAfterRemoveAll

\* the check of len(folderSet) left out
StartMultiTagSession_NoEmptyCheck(names) ==
    /\ spc = "idle"
    /\ tagNames' = names
    /\ UNCHANGED <<tableVars, ivars, pvars, shell>>
    /\ IF Len(names) = 0
       THEN EarlyReturn(ErrNoTags)
       ELSE IF HandleErr # ""
       THEN EarlyReturn(ErrListFolders)
       ELSE \E created \in BOOLEAN :
              IF created
              THEN /\ spc' = "linking"
                   /\ root' = TRUE
                   /\ sfolders' \in FolderSlices(FolderSet(names))
                   /\ UNCHANGED <<disk, links, serr>>
              ELSE EarlyReturn(ErrTempDir)

\* lines 19-63: the folders are collected and the workspace root is created
StartMultiTagSession(names) ==
    /\ spc = "idle"
    /\ tagNames' = names
    /\ UNCHANGED <<tableVars, ivars, pvars, shell>>
    /\ IF Len(names) = 0
       THEN EarlyReturn(ErrNoTags)
       ELSE IF HandleErr # ""
       THEN EarlyReturn(ErrListFolders)
       ELSE IF FolderSet(names) = {}
       THEN EarlyReturn(ErrNoFolders)
       ELSE \E created \in BOOLEAN :
              IF created
              THEN /\ spc' = "linking"
                   /\ root' = TRUE
                   /\ sfolders' \in FolderSlices(FolderSet(names))
                   /\ UNCHANGED <<disk, links, serr>>
              ELSE EarlyReturn(ErrTempDir)

\* lines 66-87: one pass of the loop that creates the symlinks
CreateSymlink ==
    /\ spc = "linking"
    /\ sfolders # <<>>
    /\ UNCHANGED <<tableVars, ivars, pvars, tagNames, shell>>
    /\ \E linked \in BOOLEAN :
         IF linked
         THEN /\ links' = links \cup {LinkFor(Head(sfolders), links)}
              /\ sfolders' = Tail(sfolders)
              /\ UNCHANGED <<disk, spc, root, serr>>
         ELSE SessionReturns(ErrSymlink) /\ UNCHANGED sfolders

\* lines 106-119: cmd.Run() starts the shell, or fails to
RunShell ==
    /\ spc = "linking"
    /\ sfolders = <<>>
    /\ UNCHANGED <<tableVars, ivars, pvars, tagNames, sfolders>>
    /\ \E started \in BOOLEAN :
         IF started
         THEN /\ spc' = "waiting"
              /\ shell' = "running"
              /\ UNCHANGED <<disk, root, links, serr>>
         ELSE /\ shell' = "launchfail"
              /\ SessionReturns(ShellResult("launchfail"))

\* lines 119-138: cmd.Run() returns: the shell has exited, or the wait failed
ShellEnds ==
    /\ spc = "waiting"
    /\ UNCHANGED <<tableVars, ivars, pvars, tagNames, sfolders>>
    /\ \E outcome \in {"exit0", "exit1", "waitfail"} :
         /\ shell' = outcome
         /\ SessionReturns(ShellResult(outcome))

\* a signal that terminates the scope process while cmd.Run() waits for the
\* shell: no handler is installed, so the runtime exits without running the
\* deferred calls
Signal ==
    /\ spc = "waiting"
    /\ spc' = "killed"
    /\ UNCHANGED <<storeVars, ivars, pvars, tagNames, root, links, sfolders, shell, serr>>

\* the names folders are tagged with in the stores a session starts from
StoredNames == {"x", "y"}

\* the tables after the pairs of A have been tagged
StoreOf(A) ==
    LET ps == SortBy(PathOrder, {a[1] : a \in A})
        ns == SortBy(NameOrder, {a[2] : a \in A})
    IN [folders |-> {[id |-> i, path |-> ps[i]] : i \in 1..Len(ps)},
        tags |-> {[id |-> i, name |-> ns[i]] : i \in 1..Len(ns)},
        folder_tags |->
            {[folder_id |-> i, tag_id |-> j] :
                <<i, j>> \in {k \in (1..Len(ps)) \X (1..Len(ns)) :
                                 <<ps[k[1]], ns[k[2]]>> \in A}},
        folderSeq |-> Len(ps),
        tagSeq |-> Len(ns)]

\* the association rows of st after RemoveTag has taken the tags named in U
\* off every folder
Untagged(st, U) ==
    {ft \in st.folder_tags :
        \A t \in st.tags : t.id = ft.tag_id => t.name \notin U}

\* a scope process about to start a session: the store holds some tagging of
\* the directories, some tags may have been taken off their folders again,
\* or the handle is nil
SessionInit ==
    /\ SessionIdle
    /\ InitIdle
    /\ ParIdle(0)
    /\ disk = SessionDirs
    /\ \E A \in SUBSET (SessionDirs \X StoredNames), U \in SUBSET StoredNames :
         /\ folders = StoreOf(A).folders
         /\ tags = StoreOf(A).tags
         /\ folder_tags = Untagged(StoreOf(A), U)
         /\ folderSeq = StoreOf(A).folderSeq
         /\ tagSeq = StoreOf(A).tagSeq
         /\ \/ db = "open" /\ once = TRUE
            \/ db = "nil" /\ once = FALSE /\ A = {}

\* the steps the scope process and its shell take by themselves
SessionProgress ==
    \/ \E names \in TagArgs : StartMultiTagSession(names)
    \/ CreateSymlink
    \/ RunShell
    \/ ShellEnds

SessionNext == SessionProgress \/ Signal

SessionSpec == SessionInit /\ [][SessionNext]_vars /\ WF_vars(SessionProgress)

\* C19: once StartSession has created the workspace root, the root is
\* eventually removed on every exit path: shell exit, symlink failure,
\* failure to launch or wait on the shell, and a signal delivered to the
\* scope process while it waits for the shell.
C19_RootEventuallyRemoved == [](root => <>(~root))

\* the workspace root is gone whenever StartMultiTagSession has returned
C19_RootRemovedOnReturn == spc = "returned" => ~root

\* the workspace root is eventually removed unless a signal ends the process
C19_RemovedUnlessKilled == [](root => <>(~root \/ spc = "killed"))

\* C20: if the shell starts and then exits, with status zero or not,
\* StartSession returns no error and the workspace no longer exists; only a
\* failure to launch or to wait on the shell is returned as an error.
C20_ShellExitIsSuccess ==
    /\ spc = "returned" /\ shell \in {"exit0", "exit1"} =>
         serr = ErrNone /\ ~root
    /\ spc = "returned" /\ shell \in {"launchfail", "waitfail"} =>
         serr = ErrRunShell /\ ~root
    /\ spc = "returned" /\ serr = ErrRunShell =>
         shell \in {"launchfail", "waitfail"}

\* the shell has exited with a non-zero status after two folders were linked
C20_Witness ==
    /\ spc = "returned"
    /\ shell = "exit1"
    /\ serr = ErrNone
    /\ Cardinality(FolderSet(tagNames)) = 2

\* C21: when the union of the folders of the requested tag names is empty
\* (a tag unknown or without folders), StartSession fails with
\* no-folders-found; no workspace directory has been created and no shell
\* has been started.
C21_NoFoldersFound ==
    /\ spc # "idle"
    /\ Len(tagNames) > 0
    /\ db = "open"
    /\ FolderSet(tagNames) = {}
    => /\ spc = "returned"
       /\ serr = ErrNoFolders
       /\ ~root
       /\ links = {}
       /\ shell = "none"

\* StartMultiTagSession has returned for an unknown name and for a tag that
\* has lost its folders, in a store where another tag has folders
C21_Witness ==
    /\ spc = "returned"
    /\ serr = ErrNoFolders
    /\ Len(tagNames) = 2
    /\ TagIdOf(tagNames[1]) = 0
    /\ TagIdOf(tagNames[2]) # 0
    /\ \E t \in Names : ListFoldersByTag(t) # <<>>

\* the candidate number of link l: its path is the k-th candidate for the
\* base name of its target
CandidateNo(l) ==
    CHOOSE k \in 0..Cardinality(SessionDirs) :
        l.path = Candidate(JoinRoot(Base(l.target)), k)

\* C22: StartSession creates exactly one symlink per distinct folder of the
\* union of the requested tags, with pairwise distinct link names, each
\* pointing at its own folder; a folder with base name b gets the first of
\* b, b-1, b-2, ... that does not exist in the workspace yet.
C22_OneLinkPerFolder ==
    /\ spc \in {"linking", "waiting"} =>
         /\ {l.target : l \in links} \cup Range(sfolders) = FolderSet(tagNames)
         /\ {l.target : l \in links} \cap Range(sfolders) = {}
         /\ Cardinality({l.target : l \in links}) = Cardinality(links)
         /\ Cardinality({l.path : l \in links}) = Cardinality(links)
         /\ \A l \in links :
              /\ \E k \in 0..Cardinality(SessionDirs) :
                   l.path = Candidate(JoinRoot(Base(l.target)), k)
              /\ \A j \in 0..(CandidateNo(l) - 1) :
                   LstatFinds(Candidate(JoinRoot(Base(l.target)), j), links)
    /\ spc = "waiting" =>
         /\ {l.target : l \in links} = FolderSet(tagNames)
         /\ Cardinality(links) = Cardinality(FolderSet(tagNames))

\* the shell runs in a workspace for the union of two tags in which x-1 was
\* taken by a folder of that name, so that the second x became x-2
C22_Witness ==
    /\ spc = "waiting"
    /\ Len(tagNames) = 2
    /\ FolderSet(tagNames) # FolderSet(<<tagNames[1]>>)
    /\ FolderSet(tagNames) # FolderSet(<<tagNames[2]>>)
    /\ \E l \in links : l.path = [parent |-> "root", name |-> "x-2"]
    /\ \E l \in links : l.path = [parent |-> "root", name |-> "x-1"] /\ l.target = "/c/x-1"

\* C23: the cleanup removes the workspace root and the links under it only:
\* every folder that was linked into the workspace is still on disk after
\* StartSession has returned, and so is every other directory.
C23_TargetsSurvive ==
    spc = "returned" =>
        /\ FolderSet(tagNames) \subseteq disk
        /\ disk = SessionDirs
        /\ ~root
        /\ \A l \in links : l.path.parent # "root"

\* a session over several folders has run its shell and returned
C23_Witness ==
    /\ spc = "returned"
    /\ serr = ErrNone
    /\ shell # "none"
    /\ Cardinality(FolderSet(tagNames)) >= 2
    /\ FolderSet(tagNames) \subseteq disk

RECURSIVE LinksInOrder(_, _)
\* the links the loop makes when it processes the slice q, starting from ls
LinksInOrder(q, ls) ==
    IF q = <<>> THEN ls
    ELSE LinksInOrder(Tail(q), ls \cup {LinkFor(Head(q), ls)})

\* C26: StartSession creates the symlinks in lexicographic path order of the
\* resolved folders, so that for a fixed store the link name of each folder,
\* collision suffix included, is the same on every run.
C26_PathOrderLinks ==
    /\ spc = "linking" /\ links = {} =>
         sfolders \in FolderSlices_Sorted(FolderSet(tagNames))
    /\ spc = "waiting" =>
         links = LinksInOrder(SortBy(PathOrder, FolderSet(tagNames)), {})

\* C29: every symlink StartSession creates is a direct child of the
\* workspace root, whatever the folder path and the collision suffix, so
\* that removing the workspace root removes every link the session created.
C29_LinksUnderRoot ==
    /\ \A l \in links : l.path.parent = "root"
    /\ spc = "returned" => links = {}

\* C27: with the store open and src an existing tag, MergeTag(src, dst)
\* succeeds and returns the number of folders associated with src before the
\* call, each counted once, whether or not the folder already carried dst.
C27_MergeCount ==
    \A src \in Names, dst \in Names :
        db = "open" /\ TagIdOf(src) # 0 =>
          LET o == MergeTag(src, dst)
          IN /\ o.err = ErrNone
             /\ o.count = Cardinality(Range(ListFoldersByTag(src)))
             /\ o.count = Len(ListFoldersByTag(src))

\* two folders carry src, one of them carries dst as well, and the merge
\* returns 2
C27_Witness ==
    /\ db = "open"
    /\ \E src \in Names, dst \in Names :
         /\ src # dst
         /\ TagIdOf(src) # 0
         /\ TagIdOf(dst) # 0
         /\ Len(ListFoldersByTag(src)) = 2
         /\ Len(ListFoldersByTag(dst)) = 1
         /\ MergeTag(src, dst).err = ErrNone
         /\ MergeTag(src, dst).count = 2

\* ------------------------------------------------ InitDB called concurrently
\* once.Do(f) as sync.Once runs it: a caller that reads done = 1 returns at
\* once; otherwise it takes the mutex, reads done again, runs f if it is
\* still 0, stores done = 1 when f has returned and releases the mutex.

\* the second read of done, made without holding the mutex's guarantee
DoneUnderLock_Unchecked == FALSE

\* the second read of done, under the mutex
DoneUnderLock == once

\* GetDB(): the handle, 0 for nil
GetDB == IF db = "nil" THEN 0 ELSE opens

\* a goroutine is inside the initialisation body
InBody(g) == ipc[g] \in {"body", "tables", "deferred"}

\* line 108-109: InitDB is entered, var err error
InitDBCall(g) ==
    /\ ipc[g] = "idle"
    /\ calls[g] < MaxCalls
    /\ ipc' = [ipc EXCEPT ![g] = "do"]
    /\ ierr' = [ierr EXCEPT ![g] = ErrNone]
    /\ UNCHANGED <<storeVars, svars, pvars, mu, iret, calls, bodyRuns, opens, handle>>

\* once.Do: the first read of done
OnceFast(g) ==
    /\ ipc[g] = "do"
    /\ ipc' = [ipc EXCEPT ![g] = IF once THEN "return" ELSE "lock"]
    /\ UNCHANGED <<storeVars, svars, pvars, mu, ierr, iret, calls, bodyRuns, opens, handle>>

\* once.Do: the mutex is taken and done is read again
OnceLock(g) ==
    /\ ipc[g] = "lock"
    /\ mu = 0
    /\ mu' = g
    /\ IF DoneUnderLock
       THEN ipc' = [ipc EXCEPT ![g] = "unlock"] /\ UNCHANGED bodyRuns
       ELSE ipc' = [ipc EXCEPT ![g] = "body"] /\ bodyRuns' = bodyRuns + 1
    /\ UNCHANGED <<storeVars, svars, pvars, ierr, iret, calls, opens, handle>>

\* lines 110-130: home directory, config directory, sql.Open
BodyOpen(g) ==
    /\ ipc[g] = "body"
    /\ \E outcome \in {"ok", "home", "mkdir", "open"} :
         CASE outcome = "ok" ->
                /\ db' = "noschema"
                /\ opens' = opens + 1
                /\ ipc' = [ipc EXCEPT ![g] = "tables"]
                /\ UNCHANGED ierr
           [] outcome = "open" ->
                /\ db' = "nil"
                /\ ierr' = [ierr EXCEPT ![g] = ErrInit]
                /\ ipc' = [ipc EXCEPT ![g] = "deferred"]
                /\ UNCHANGED opens
           [] OTHER ->
                /\ ierr' = [ierr EXCEPT ![g] = ErrInit]
                /\ ipc' = [ipc EXCEPT ![g] = "deferred"]
                /\ UNCHANGED <<db, opens>>
    /\ UNCHANGED <<disk, once, folders, tags, folder_tags, folderSeq, tagSeq,
                   svars, pvars, mu, iret, calls, bodyRuns, handle>>

\* line 133: err = createTables()
BodyTables(g) ==
    /\ ipc[g] = "tables"
    /\ \E created \in BOOLEAN :
         IF created
         THEN db' = "open" /\ ierr' = [ierr EXCEPT ![g] = ErrNone]
         ELSE db' = "noschema" /\ ierr' = [ierr EXCEPT ![g] = ErrInit]
    /\ ipc' = [ipc EXCEPT ![g] = "deferred"]
    /\ UNCHANGED <<disk, once, folders, tags, folder_tags, folderSeq, tagSeq,
                   svars, pvars, mu, iret, calls, bodyRuns, opens, handle>>

\* once.Do: f has returned, done is stored
OnceDone(g) ==
    /\ ipc[g] = "deferred"
    /\ once' = TRUE
    /\ ipc' = [ipc EXCEPT ![g] = "unlock"]
    /\ UNCHANGED <<disk, db, folders, tags, folder_tags, folderSeq, tagSeq,
                   svars, pvars, mu, ierr, iret, calls, bodyRuns, opens, handle>>

\* once.Do: the mutex is released
OnceUnlock(g) ==
    /\ ipc[g] = "unlock"
    /\ mu' = 0
    /\ ipc' = [ipc EXCEPT ![g] = "return"]
    /\ UNCHANGED <<storeVars, svars, pvars, ierr, iret, calls, bodyRuns, opens, handle>>

\* line 136: return err
InitDBReturn(g) ==
    /\ ipc[g] = "return"
    /\ ipc' = [ipc EXCEPT ![g] = "idle"]
    /\ iret' = [iret EXCEPT ![g] = ierr[g]]
    /\ calls' = [calls EXCEPT ![g] = @ + 1]
    /\ UNCHANGED <<storeVars, svars, pvars, mu, ierr, bodyRuns, opens, handle>>

\* lines 140-142: GetDB called by a goroutine whose InitDB call has returned
GetDBCall(g) ==
    /\ ipc[g] = "idle"
    /\ calls[g] >= 1
    /\ handle[g] # GetDB
    /\ handle' = [handle EXCEPT ![g] = GetDB]
    /\ UNCHANGED <<storeVars, svars, pvars, ipc, mu, ierr, iret, calls, bodyRuns, opens>>

InitNext ==
    \E g \in Goroutines :
        \/ InitDBCall(g)
        \/ OnceFast(g)
        \/ OnceLock(g)
        \/ BodyOpen(g)
        \/ BodyTables(g)
        \/ OnceDone(g)
        \/ OnceUnlock(g)
        \/ InitDBReturn(g)
        \/ GetDBCall(g)

InitSpec == Init /\ [][InitNext]_vars

\* C24: however many goroutines call InitDB, however often, the
\* initialisation body is entered at most once; a caller that has returned
\* finds the body run and finished; and every caller that then asks GetDB
\* gets the handle GetDB returns now, which no later step changes.
C24_InitOnce ==
    /\ bodyRuns <= 1
    /\ opens <= 1
    /\ \A g \in Goroutines :
         calls[g] >= 1 \/ ipc[g] = "return" =>
           /\ bodyRuns = 1
           /\ once
           /\ \A h \in Goroutines : ~InBody(h)
    /\ \A g \in Goroutines : handle[g] # Unset => handle[g] = GetDB

\* two goroutines have returned from InitDB and hold the handle that was
\* opened, while a third, which read done = 0 before the body had finished,
\* is still waiting for the mutex
C24_Witness ==
    /\ bodyRuns = 1
    /\ db = "open"
    /\ \E g \in Goroutines, h \in Goroutines, w \in Goroutines :
         /\ g # h
         /\ calls[g] = MaxCalls
         /\ calls[h] >= 1
         /\ handle[g] = 1
         /\ handle[h] = 1
         /\ ipc[w] = "lock"

\* C30: InitDB never reports success while initialisation has not
\* succeeded: a call that returns nil leaves a handle with its schema, so
\* after a failed first call every later call returns an error as well.
C30_NoSuccessAfterFailure ==
    \A g \in Goroutines :
        calls[g] >= 1 /\ iret[g] = ErrNone => db = "open"

\* ------------------------------------------------------- runEachParallel
\* wg.Wait() returning at once
WaitReturns_NoWait == TRUE

\* wg.Wait() returns when the counter is zero
WaitReturns == wg = 0

\* lines 1120-1122: wg.Add(1); go func(f string) {...}(folder)
Spawn ==
    /\ cpc = "spawn"
    /\ spawned < nfolders
    /\ spawned' = spawned + 1
    /\ wg' = wg + 1
    /\ wpc' = [wpc EXCEPT ![spawned + 1] = "run"]
    /\ UNCHANGED <<storeVars, svars, ivars, nfolders, werr, results, closed,
                   closer, cpc, successCount, failCount, collected>>

\* lines 1142-1146: the loop is over; the closing goroutine is started and
\* runEachParallel goes on to range over results
StartCloser ==
    /\ cpc = "spawn"
    /\ spawned = nfolders
    /\ closer' = "waiting"
    /\ cpc' = "collect"
    /\ UNCHANGED <<storeVars, svars, ivars, nfolders, spawned, wpc, werr, wg,
                   results, closed, successCount, failCount, collected>>

\* lines 1125-1135: the worker runs the command; it fails or not
WorkerRun(w) ==
    /\ wpc[w] = "run"
    /\ \E failed \in BOOLEAN : werr' = [werr EXCEPT ![w] = failed]
    /\ wpc' = [wpc EXCEPT ![w] = "send"]
    /\ UNCHANGED <<storeVars, svars, ivars, nfolders, spawned, wg, results,
                   closed, closer, cpc, successCount, failCount, collected>>

\* line 1137: results <- result{...}; the channel has room for len(folders)
WorkerSend(w) ==
    /\ wpc[w] = "send"
    /\ Len(results) < nfolders
    /\ results' = Append(results, [folder |-> w, err |-> werr[w]])
    /\ wpc' = [wpc EXCEPT ![w] = "deferred"]
    /\ UNCHANGED <<storeVars, svars, ivars, nfolders, spawned, werr, wg, closed,
                   closer, cpc, successCount, failCount, collected>>

\* line 1123: the deferred wg.Done()
WorkerDone(w) ==
    /\ wpc[w] = "deferred"
    /\ wg' = wg - 1
    /\ wpc' = [wpc EXCEPT ![w] = "exited"]
    /\ UNCHANGED <<storeVars, svars, ivars, nfolders, spawned, werr, results,
                   closed, closer, cpc, successCount, failCount, collected>>

\* lines 1143-1145: wg.Wait(); close(results)
CloserCloses ==
    /\ closer = "waiting"
    /\ WaitReturns
    /\ closed' = TRUE
    /\ closer' = "done"
    /\ UNCHANGED <<storeVars, svars, ivars, nfolders, spawned, wpc, werr, wg,
                   results, cpc, successCount, failCount, collected>>

\* lines 1152-1166: one pass of `for r := range results`
Collect ==
    /\ cpc = "collect"
    /\ results # <<>>
    /\ results' = Tail(results)
    /\ collected' = Append(collected, Head(results).folder)
    /\ IF Head(results).err
       THEN failCount' = failCount + 1 /\ UNCHANGED successCount
       ELSE successCount' = successCount + 1 /\ UNCHANGED failCount
    /\ UNCHANGED <<storeVars, svars, ivars, nfolders, spawned, wpc, werr, wg,
                   closed, closer, cpc>>

\* lines 1168-1169: the channel is closed and drained; the summary is printed
CollectEnds ==
    /\ cpc = "collect"
    /\ results = <<>>
    /\ closed
    /\ cpc' = "done"
    /\ UNCHANGED <<storeVars, svars, ivars, nfolders, spawned, wpc, werr, wg,
                   results, closed, closer, successCount, failCount, collected>>

ParInit ==
    /\ disk = DiskPaths
    /\ db = "open"
    /\ once = TRUE
    /\ folders = {}
    /\ tags = {}
    /\ folder_tags = {}
    /\ folderSeq = 0
    /\ tagSeq = 0
    /\ SessionIdle
    /\ InitIdle
    /\ \E n \in 0..MaxFolders : ParIdle(n)

ParNext ==
    \/ Spawn
    \/ StartCloser
    \/ \E w \in 1..nfolders : WorkerRun(w)
    \/ \E w \in 1..nfolders : WorkerSend(w)
    \/ \E w \in 1..nfolders : WorkerDone(w)
    \/ CloserCloses
    \/ Collect
    \/ CollectEnds

\* every goroutine that can take a step is scheduled, and every command ends
ParSpec == ParInit /\ [][ParNext]_vars /\ WF_vars(ParNext)

\* what holds when the collector has finished
AllCollected ==
    /\ Len(collected) = nfolders
    /\ Range(collected) = 1..nfolders
    /\ successCount + failCount = nfolders
    /\ failCount = Cardinality({w \in 1..nfolders : werr[w]})
    /\ successCount = Cardinality({w \in 1..nfolders : ~werr[w]})
    /\ \A w \in 1..nfolders : wpc[w] = "exited"

\* C28: in every interleaving of the workers the collector ends, and when
\* it has ended it has received exactly one result per folder, failed or
\* not, so that successes plus failures equal the number of folders; the
\* counters change in the collector's step only, and the channel is never
\* closed while a worker has still to send.
C28_FanOut ==
    /\ <>(cpc = "done")
    /\ [](cpc = "done" => AllCollected)
    /\ [](closed => \A w \in 1..nfolders : wpc[w] = "exited")
    /\ [][successCount' # successCount \/ failCount' # failCount => Collect]_vars

\* three workers, of which one failed and one did not, have been collected
\* in an order that is not the order of the folders
C28_Witness ==
    /\ cpc = "done"
    /\ nfolders = 3
    /\ failCount >= 1
    /\ successCount >= 1
    /\ collected # <<1, 2, 3>>
    /\ Range(collected) = {1, 2, 3}

\* ------------------------------------------------- calls of the queries
\* a call of GetTagsForFolder: the slice and the error it returns
GetTagsForFolderCall(path) ==
    IF HandleErr # "" THEN Fails(HandleErr)
    ELSE Return(Store, ErrNone, 0, GetTagsForFolder(path))

\* a call of ListTags: the map and the error it returns
ListTagsCall ==
    IF HandleErr # "" THEN Fails(HandleErr)
    ELSE Return(Store, ErrNone, 0, ListTags)

\* a call of ListAllFolders: the slice and the error it returns
ListAllFoldersCall ==
    IF HandleErr # "" THEN Fails(HandleErr)
    ELSE Return(Store, ErrNone, 0, ListAllFolders)

\* Doctor: the counts, the tags without association row and the folders
\* missing on disk
Doctor ==
    IF HandleErr # "" THEN Fails(HandleErr)
    ELSE Return(Store, ErrNone, 0,
                [TotalTags |-> Cardinality(tags),
                 TotalFolders |-> Cardinality(folders),
                 TotalAssociations |-> Cardinality(folder_tags),
                 OrphanedTags |-> {t.name : t \in {u \in tags :
                                      \A ft \in folder_tags : ft.tag_id # u.id}},
                 MissingFolders |-> {f.path : f \in {h \in folders :
                                        NotExist(h.path)}}])

\* GetDB returns nil and every operation returns database-not-initialized
\* and writes nothing
AllNotInitialized ==
    /\ GetDB = 0
    /\ \A p \in Paths, t \in Names, u \in Names, dryRun \in BOOLEAN :
         /\ p \in disk => AddTag(p, t) = Fails(ErrNotInitialized)
         /\ RemoveTag(p, t) = Fails(ErrNotInitialized)
         /\ DeleteTag(t) = Fails(ErrNotInitialized)
         /\ RenameTag(t, u) = Fails(ErrNotInitialized)
         /\ MergeTag(t, u) = Fails(ErrNotInitialized)
         /\ CloneTag(t, u) = Fails(ErrNotInitialized)
         /\ ListTagsCall = Fails(ErrNotInitialized)
         /\ ListFoldersByTagCall(t) = Fails(ErrNotInitialized)
         /\ GetTagsForFolderCall(p) = Fails(ErrNotInitialized)
         /\ ListAllFoldersCall = Fails(ErrNotInitialized)
         /\ Prune(dryRun) = Fails(ErrNotInitialized)
         /\ Doctor = Fails(ErrNotInitialized)

\* C25: until InitDB has succeeded GetDB returns nil, and every repository
\* operation (AddTag on an existing path included) returns
\* database-not-initialized and writes nothing.
C25_NotInitializedUntilSuccess == db # "open" => AllNotInitialized

\* the same while no handle has been assigned
C25_NilHandle == db = "nil" => AllNotInitialized

====
